---- MODULE Spec2Model ----
(***************************************************************************)
(* Live game-session coordinator of the bingo server: the GameManager      *)
(* class (startGame, startRevealTimer, revealNextLocation, manualReveal,   *)
(* pauseGame, resumeGame, endGame, addClient, removeClient, broadcast) and *)
(* the websocket handlers (open, message, close) that drive it.            *)
(*                                                                         *)
(* Every async function is cut at its awaits.  A storage call is one step  *)
(* (the moment the database executes it, with the arguments captured when  *)
(* the call was issued) and the code that runs when the promise resolves   *)
(* is the next step, so other handlers and timers interleave exactly where *)
(* the event loop lets them.                                               *)
(***************************************************************************)
EXTENDS Integers, Sequences, FiniteSets, TLC

\* ---- bounds of the model ----
MaxTasks == 2
SeqManual == 3
MaxFail == 2
NumLocs == 2
MaxRev == 2
LiveFires == 3
NumConns == 2

Codes == {"ABC123", "XYZ789"}
Conns == 1..NumConns
Locs == 1..NumLocs
GameIds == 1..(SeqManual + 3)
Handles == 1..(SeqManual + 3)
TaskIds == 1..MaxTasks

NoGame == 0
NoTimer == 0
\* a timer handle whose timeout already fired or was cleared: truthy, but
\* clearTimeout on it does nothing
Stale == -1

VARIABLES
  session,      \* durable GameSession row per code: status, currentRevealIndex, maxReveals
  revealed,     \* durable RevealedLocation rows per code, in creation order
  activeGames,  \* GameManager.activeGames: code -> game object (NoGame when absent)
  heap,         \* the ActiveGame objects, by identity
  clientSet,    \* the Set objects held in ActiveGame.clients, by identity
  pending,      \* outstanding setTimeout callbacks: handle -> game captured by the closure
  tasks,        \* in-flight async calls (handlers and timer callbacks), each at an await
  conn,         \* websocket connections: readyState and ws.data.code
  log,          \* the messages sent so far, each with the connections it reached
  budget,       \* what this run may still do: commands of each kind, storage failures
  cast,         \* the broadcasts of the last step: registry before, receivers, registry after
  quiet,        \* per code: "pausing" while pauseGame runs, "yes" once it has returned,
                \* "no" again as soon as resumeGame or startGame is called
  ret           \* the call that returned in the last step, if any

vars == <<session, revealed, activeGames, heap, clientSet, pending, tasks, conn, log, budget, cast, quiet, ret>>

NullGame == [sessionId |-> "", code |-> "", timer |-> NoTimer, currentRevealIndex |-> 0,
             maxReveals |-> 0, allLocationIds |-> {}, clients |-> 0,
             started |-> FALSE, born |-> {}, gone |-> FALSE]

Idle == [kind |-> "idle", pc |-> "", code |-> "", ws |-> 0, g |-> NoGame, eg |-> NoGame,
         ok |-> TRUE, n |-> 0, st |-> "", smax |-> 0, locs |-> {}, loc |-> 0, idx |-> 0,
         after |-> "", out |-> "", idx0 |-> 0, base |-> 0, regs |-> {}, regs0 |-> {}, second |-> FALSE, next |-> 0, made |-> 0, ended |-> FALSE,
         had |-> FALSE, rows |-> << >>, sync |-> ""]

NoRet == [kind |-> "none", code |-> "", out |-> "", idx0 |-> 0, base |-> 0, pre |-> 0,
          regs |-> {}, regs0 |-> {}, second |-> FALSE, next |-> 0, user |-> "", place |-> 0,
          idx1 |-> 0, gmax |-> 0, made |-> 0, loc |-> 0, sent |-> FALSE, ended |-> FALSE,
          had |-> FALSE, sync |-> "", wrote |-> FALSE]

Msg(type, code, loc, idx, st) ==
  [type |-> type, code |-> code, to |-> {}, loc |-> loc, idx |-> idx, st |-> st, rows |-> << >>]

\* the in-memory state a step works on
Mem == [ag |-> activeGames, hp |-> heap, cs |-> clientSet, pd |-> pending, lg |-> log,
        bc |-> {}]

Min(S) == CHOOSE x \in S : \A y \in S : x <= y

Busy == {t \in TaskIds : tasks[t].kind # "idle"}
FreeTasks == IF Cardinality(Busy) < budget.cap THEN TaskIds \ Busy ELSE {}
NewTask == Min(FreeTasks)

\* ---- timers ----
FreshHandle(pd) == Min({h \in Handles : pd[h] = NoGame})

\* scheduleNextReveal: game.timer = setTimeout(callback closing over game)
ScheduleNextReveal(m, g) ==
  LET h == FreshHandle(m.pd)
  IN [m EXCEPT !.pd = [@ EXCEPT ![h] = g], !.hp = [@ EXCEPT ![g].timer = h]]

\* startRevealTimer(game): no check of game.timer, always arms a new timeout
StartRevealTimer(m, g) == ScheduleNextReveal(m, g)

ClearTimeout(m, h) ==
  IF h \in Handles
  THEN [m EXCEPT !.pd = [@ EXCEPT ![h] = NoGame],
                 !.hp = [g \in GameIds |-> IF m.hp[g].timer = h
                                           THEN [m.hp[g] EXCEPT !.timer = Stale] ELSE m.hp[g]]]
  ELSE m

\* ---- registry and fan-out ----
\* readyState === 1; a "broken" connection still reads as open but its send throws
IsOpen(w) == conn[w].state \in {"open", "broken"}
SendOk(w) == conn[w].state # "broken"

\* a variant that treats every registered client as reachable
RecipientsAll(clients) == clients

\* a variant that delivers to every open connection of the server
RecipientsEveryone(clients) == {w \in Conns : IsOpen(w) /\ SendOk(w)}

\* broadcast(game, message): send to every open client, drop those that are
\* not open or whose send throws
Recipients(clients) == {w \in clients : IsOpen(w) /\ SendOk(w)}

Broadcast(m, g, msg) ==
  LET s == m.hp[g].clients
      to == Recipients(m.cs[s])
      m2 == [m EXCEPT !.cs = [@ EXCEPT ![s] = to],
                      !.lg = @ \cup {[msg EXCEPT !.to = to]}]
  IN [m2 EXCEPT !.bc = @ \cup {[type |-> msg.type, before |-> m.cs[s], to |-> to,
                                 after |-> m2.cs[s], idx |-> msg.idx, st |-> msg.st]}]

\* a direct ws.send guarded by readyState === 1, inside try/catch
SendTo(m, w, msg) ==
  IF IsOpen(w) /\ SendOk(w) THEN [m EXCEPT !.lg = @ \cup {[msg EXCEPT !.to = {w}]}] ELSE m

\* a variant that does not skip the excluded client
OthersAll(clients, w) == clients

\* `client !== excludeClient`
Others(clients, w) == clients \ {w}

\* broadcastExcept(code, excludeClient, message)
BroadcastExcept(m, c, w, msg) ==
  IF m.ag[c] = NoGame THEN m
  ELSE LET s == m.hp[m.ag[c]].clients
           to == Recipients(Others(m.cs[s], w))
           kept == to \cup (m.cs[s] \ Others(m.cs[s], w))
           m2 == [m EXCEPT !.cs = [@ EXCEPT ![s] = kept],
                           !.lg = @ \cup {[msg EXCEPT !.to = to]}]
       \* the record of the fan-out covers the clients the loop sends to
       IN [m2 EXCEPT !.bc = @ \cup {[type |-> msg.type, before |-> Others(m.cs[s], w),
                                      to |-> to, after |-> to, idx |-> msg.idx,
                                      st |-> msg.st]}]

FreshGame(m) == Min({g \in GameIds : m.hp[g] = NullGame})
FreshSet(m) == Min({s \in GameIds : \A g \in GameIds : m.hp[g] = NullGame \/ m.hp[g].clients # s})

\* the connections registered for a code
Registered(c) == IF activeGames[c] # NoGame THEN clientSet[heap[activeGames[c]].clients] ELSE {}

\* the table's game for a code was built by a startGame call
Started(c) == activeGames[c] # NoGame /\ heap[activeGames[c]].started

\* a variant that gives every new game object a set of its own
AlwaysNewSet(m, c) == FreshSet(m)

\* existingGame?.clients || new Set()
ExistingClients(m, c) == IF m.ag[c] # NoGame THEN m.hp[m.ag[c]].clients ELSE FreshSet(m)

\* addClient(code, client)
AddClient(m, c, w) ==
  IF m.ag[c] # NoGame
  THEN [m EXCEPT !.cs = [@ EXCEPT ![m.hp[m.ag[c]].clients] = @ \cup {w}]]
  ELSE LET g == FreshGame(m)
           s == FreshSet(m)
       IN [m EXCEPT !.hp = [@ EXCEPT ![g] = [sessionId |-> "", code |-> c, timer |-> NoTimer,
                                              currentRevealIndex |-> 0, maxReveals |-> 0,
                                              allLocationIds |-> {}, clients |-> s,
                                              started |-> FALSE, born |-> {}, gone |-> FALSE]],
                    !.cs = [@ EXCEPT ![s] = {w}],
                    !.ag = [@ EXCEPT ![c] = g]]

\* a variant that also drops the game from the table
RemoveClientDropsGame(m, c, w) ==
  IF m.ag[c] # NoGame THEN [m EXCEPT !.ag = [@ EXCEPT ![c] = NoGame]] ELSE m

\* removeClient(code, client)
RemoveClient(m, c, w) ==
  IF m.ag[c] # NoGame
  THEN [m EXCEPT !.cs = [@ EXCEPT ![m.hp[m.ag[c]].clients] = @ \ {w}]]
  ELSE m

\* The calls in flight are a bag: which slot a call sits in means nothing, so
\* the busy slots are kept first.
Compact(tk) ==
  LET busy == SelectSeq([t \in TaskIds |-> tk[t]], LAMBDA T : T.kind # "idle")
  IN [t \in TaskIds |-> IF t <= Len(busy) THEN busy[t] ELSE Idle]

\* Installs the in-memory state after a step.  Objects nothing refers to any
\* more are dropped, and a handle that is no longer pending reads as Stale.
Commit(m, tk) ==
  LET live == ({m.ag[c] : c \in Codes} \cup {tk[t].g : t \in TaskIds}
               \cup {tk[t].eg : t \in TaskIds} \cup {m.pd[h] : h \in Handles}) \ {NoGame}
      tm(g) == LET h == m.hp[g].timer
               IN IF h \in Handles /\ m.pd[h] = NoGame THEN Stale ELSE h
      hp2 == [g \in GameIds |-> IF g \in live THEN [m.hp[g] EXCEPT !.timer = tm(g)] ELSE NullGame]
      sets == {hp2[g].clients : g \in live}
  IN /\ activeGames' = m.ag
     /\ heap' = hp2
     /\ clientSet' = [s \in GameIds |-> IF s \in sets THEN m.cs[s] ELSE {}]
     /\ pending' = m.pd
     /\ log' = m.lg
     /\ cast' = m.bc
     /\ tasks' = Compact(tk)

\* The runs explored.  Each profile says how many calls may be in flight at
\* once, which external events the run contains and what storage holds at
\* the beginning: "normal" (the session exists, locations exist), "absent"
\* (no session with the code), "nolocs" (an empty location table), "oneloc"
\* (a location table with one row) or "two" (two sessions exist, with
\* different codes).
Profile(cap, fire, start, manual, pause, resume, end, open, close, activate, fail, bingo, bad,
        world) ==
  [cap |-> cap, fire |-> fire, start |-> start, manual |-> manual, pause |-> pause,
   resume |-> resume, end |-> end, open |-> open, close |-> close, activate |-> activate,
   fail |-> fail, bingo |-> bingo, bad |-> bad, world |-> world]

Profiles ==
  { \* concurrent: a start, one timer tick and a pause
    Profile(MaxTasks, 1, 1, 0, 1, 0, 0, 1, 0, 0, 0, 0, 0, "normal"),
    \* concurrent: two starts and two timer ticks
    Profile(MaxTasks, 2, 2, 0, 0, 0, 0, 0, 0, 0, 0, 0, 0, "normal"),
    \* concurrent: two manual reveals and one timer tick
    Profile(MaxTasks, 1, 0, 2, 0, 0, 0, 1, 0, 0, 0, 0, 0, "normal"),
    \* one call at a time: start, manual reveals, end, one storage failure
    Profile(1, 2, 1, SeqManual, 0, 0, 1, 1, 0, 0, 1, 0, 0, "normal"),
    \* one call at a time: start, a manual reveal, MaxFail storage failures
    Profile(1, 2, 1, 1, 0, 0, 0, 1, 0, 0, MaxFail, 0, 0, "normal"),
    \* one call at a time: activation, start, pause, resume, disconnect
    Profile(1, 2, 1, 0, 1, 1, 0, 1, 1, 1, 0, 0, 0, "normal"),
    \* one call at a time: start, pause, resume, no timer tick, one storage failure
    Profile(1, 0, 1, 0, 1, 1, 0, 1, 0, 0, 1, 0, 0, "normal"),
    \* one call at a time: NumConns connections, two starts, a disconnect, a bingo claim
    Profile(1, 1, 2, 0, 0, 0, 0, NumConns, 1, 0, 0, 1, 0, "normal"),
    \* one call at a time: NumConns connections, a start, a message that does not parse
    Profile(1, 0, 1, 0, 0, 0, 0, NumConns, 0, 0, 0, 0, 1, "normal"),
    \* two sessions, concurrent: two starts
    Profile(MaxTasks, 0, 2, 0, 0, 0, 0, 0, 0, 0, 0, 0, 0, "two"),
    \* two sessions, one call at a time: connections, a start, a timer tick, a manual reveal
    Profile(1, 1, 1, 1, 0, 0, 0, NumConns, 0, 0, 0, 0, 0, "two"),
    \* two sessions, one call at a time: connections, a start, pause, resume
    Profile(1, 0, 1, 0, 1, 1, 0, NumConns, 0, 0, 0, 0, 0, "two"),
    \* two sessions, one call at a time: connections, a start, an end, a disconnect
    Profile(1, 0, 1, 0, 0, 0, 1, NumConns, 1, 0, 0, 0, 0, "two"),
    \* one call at a time: no session with the code
    Profile(1, 0, 1, 1, 0, 0, 0, NumConns, 0, 0, 0, 0, 0, "absent"),
    \* one call at a time: no locations
    Profile(1, 1, 1, 1, 0, 0, 0, 1, 0, 0, 0, 0, 0, "nolocs"),
    \* one call at a time: a single location, so the pool runs out first
    Profile(1, 1, 1, 1, 0, 0, 0, 1, 0, 0, 1, 0, 0, "oneloc"),
    \* one call at a time: a start, a resume, an end and a timer tick
    Profile(1, 1, 1, 0, 0, 1, 1, 1, 0, 0, 0, 0, 0, "normal"),
    \* one call at a time: a start and two pauses
    Profile(1, 0, 1, 0, 2, 0, 0, 1, 0, 0, 0, 0, 0, "normal"),
    \* one call at a time: connections that carry a userId
    Profile(1, 0, 0, 0, 0, 0, 0, NumConns, 1, 0, 1, 0, 0, "players") }

\* the codes the run's commands and connections use: both in the world
\* "two", where storage holds two sessions, one otherwise
InPlay == IF budget.world = "two" THEN Codes ELSE {"ABC123"}

\* the runs of the specification with fairness: storage never fails, no
\* pause, and timer ticks enough to take a game to its end
LiveProfiles ==
  { \* one call at a time: a connection, a start, a manual reveal
    Profile(1, LiveFires, 1, 1, 0, 0, 0, 1, 0, 0, 0, 0, 0, "normal"),
    \* the same with a single location
    Profile(1, LiveFires, 1, 1, 0, 0, 0, 1, 0, 0, 0, 0, 0, "oneloc"),
    \* a start whose timer may fire while an earlier reveal awaits storage
    Profile(MaxTasks, LiveFires, 1, 0, 0, 0, 0, 0, 0, 0, 0, 0, 0, "normal") }

InitFrom(profiles) ==
  /\ budget \in profiles
  /\ session \in [Codes -> [status : {"NONE", "WAITING", "ACTIVE"},
                            currentRevealIndex : {0}, maxReveals : 1..MaxRev,
                            lost : {0}]]
  /\ \A c \in InPlay :
       session[c].status = IF budget.world = "absent" THEN "NONE"
                           ELSE IF budget.activate > 0 THEN "WAITING" ELSE "ACTIVE"
  /\ \A c \in Codes \ InPlay : session[c].status = "NONE" /\ session[c].maxReveals = 1
  /\ revealed = [c \in Codes |-> <<>>]
  /\ activeGames = [c \in Codes |-> NoGame]
  /\ heap = [g \in GameIds |-> NullGame]
  /\ clientSet = [s \in GameIds |-> {}]
  /\ pending = [h \in Handles |-> NoGame]
  /\ tasks = [t \in TaskIds |-> Idle]
  /\ conn = [w \in Conns |-> [state |-> "new", code |-> ""]]
  /\ log = {}
  /\ cast = {}
  /\ quiet = [c \in Codes |-> "no"]
  /\ ret = NoRet

Init == InitFrom(Profiles)

LiveInit == InitFrom(LiveProfiles)

\* ---- storage ----
Exists(c) == c \in Codes /\ session[c].status # "NONE"

\* a storage call either succeeds or throws; throws are budgeted
Outcome(ok) == ok \/ budget.fail > 0
Count(ok) == budget' = IF ok THEN budget ELSE [budget EXCEPT !.fail = @ - 1]

\* an external event of kind k happens only while the run has one left
Spend(k) == budget[k] > 0 /\ budget' = [budget EXCEPT ![k] = @ - 1]

Step(t, T) == [tasks EXCEPT ![t] = T]

\* ---- returning from revealNextLocation into its caller ----
NoLoc == 0

\* The caller's continuation after `await this.revealNextLocation(game)`:
\* the timer callback re-arms if the code is still in the table, startGame
\* broadcasts game-started, manualReveal just returns.
CallerAfterReveal(m, T, loc, idx) ==
  CASE T.kind = "timer" ->
         IF m.ag[T.code] # NoGame THEN ScheduleNextReveal(m, T.g) ELSE m
    [] T.kind = "start" -> Broadcast(m, T.g, Msg("game-started", T.code, loc, idx, ""))
    [] OTHER -> m

RevealReturn(m, t, T, out, loc, idx) ==
  /\ Commit(CallerAfterReveal(m, T, loc, idx), Step(t, Idle))
  /\ ret' = [kind |-> T.kind, code |-> T.code, out |-> out, idx0 |-> T.idx0, base |-> T.base,
             regs |-> T.regs, regs0 |-> T.regs0, second |-> T.second, next |-> T.next,
             user |-> "", place |-> 0,
             pre |-> T.n, idx1 |-> m.hp[T.g].currentRevealIndex,
             gmax |-> m.hp[T.g].maxReveals, made |-> T.made, loc |-> T.loc,
             sent |-> (loc # NoLoc), ended |-> T.ended, had |-> T.had,
             sync |-> T.sync, wrote |-> (T.made > 0 /\ T.ok)]

\* the "end" message handler after `await gameManager.endGame(code)`
HandlerEndDone(m, t, T) ==
  LET w == m.ag[T.code]
      m2 == IF w # NoGame THEN Broadcast(m, w, Msg("game-ended", T.code, NoLoc, 0, "")) ELSE m
  IN /\ Commit(m2, Step(t, Idle))
     /\ ret' = [NoRet EXCEPT !.kind = "end", !.code = T.code, !.out = "ok", !.ended = T.ended]

\* a variant in which revealNextLocation, having ended the game, goes on to
\* draw a location instead of returning null
AfterEndFallsThrough(m, t, T) ==
  IF T.after = "reveal"
  THEN Commit(m, Step(t, [T EXCEPT !.pc = "list"])) /\ ret' = NoRet
  ELSE HandlerEndDone(m, t, T)

AfterEnd(m, t, T) ==
  IF T.after = "reveal"
  THEN RevealReturn(m, t, T, T.out, NoLoc, 0)
  ELSE HandlerEndDone(m, t, T)

\* endGame(code) up to its await: look the game up by code, clear its timer,
\* issue the status write
EndGame(m, t, T, after) ==
  LET g == m.ag[T.code]
  IN IF g = NoGame
     THEN AfterEnd(m, t, [T EXCEPT !.after = after])
     ELSE /\ Commit(ClearTimeout(m, m.hp[g].timer),
                    Step(t, [T EXCEPT !.pc = "endw", !.eg = g, !.after = after]))
          /\ ret' = NoRet

EndWrite(t) ==
  LET T == tasks[t]
  IN /\ T.pc = "endw"
     /\ \E ok \in BOOLEAN :
          /\ Outcome(ok)
          /\ Count(ok)
          /\ session' = IF ok /\ Exists(T.code)
                        THEN [session EXCEPT ![T.code].status = "ENDED"] ELSE session
          /\ Commit(Mem, Step(t, [T EXCEPT !.pc = "endk", !.ok = ok /\ Exists(T.code)]))
     /\ ret' = NoRet
     /\ UNCHANGED <<revealed, conn, quiet>>

EndK(t) ==
  LET T == tasks[t]
      T2 == [T EXCEPT !.eg = NoGame, !.ended = @ \/ T.ok]
      m1 == Broadcast(Mem, T.eg, Msg("game-ended", T.code, NoLoc, 0, ""))
      m2 == [m1 EXCEPT !.ag = [@ EXCEPT ![T.code] = NoGame],
                       !.hp = [@ EXCEPT ![T.eg].gone = TRUE]]
  IN /\ T.pc = "endk"
     /\ AfterEnd(IF T.ok THEN m2 ELSE Mem, t, T2)
     /\ UNCHANGED <<session, revealed, conn, budget, quiet>>

\* ---- revealNextLocation ----
\* a variant that ends the game only once the index has passed maxReveals
ReachedMaxStrict(game) == game.currentRevealIndex > game.maxReveals

ReachedMax(game) == game.currentRevealIndex >= game.maxReveals

RevealEnter(m, T, g) ==
  [T EXCEPT !.pc = "sync", !.g = g, !.idx0 = m.hp[g].currentRevealIndex]

SyncRead(t) ==
  LET T == tasks[t]
      sid == heap[T.g].sessionId
  IN /\ T.pc = "sync"
     /\ \E ok \in BOOLEAN :
          /\ Outcome(ok)
          /\ Count(ok)
          /\ Commit(Mem, Step(t, [T EXCEPT !.pc = "synck", !.ok = ok,
                  !.sync = IF ~ok THEN "failed" ELSE IF Exists(sid) THEN "read" ELSE "null",
                  !.n = IF ok /\ Exists(sid) THEN session[sid].currentRevealIndex ELSE -1]))
     /\ ret' = NoRet
     /\ UNCHANGED <<session, revealed, conn, quiet>>

SyncK(t) ==
  LET T == tasks[t]
      m1 == IF T.ok /\ T.n >= 0
            THEN [Mem EXCEPT !.hp = [@ EXCEPT ![T.g].currentRevealIndex = T.n]] ELSE Mem
      T1 == [T EXCEPT !.base = m1.hp[T.g].currentRevealIndex]
  IN /\ T.pc = "synck"
     /\ IF ReachedMax(m1.hp[T.g])
        THEN EndGame(m1, t, [T1 EXCEPT !.out = "maxed"], "reveal")
        ELSE Commit(m1, Step(t, [T1 EXCEPT !.pc = "list"])) /\ ret' = NoRet
     /\ UNCHANGED <<session, revealed, conn, budget, quiet>>

RevealedIds(sid) == {revealed[sid][i].locationId : i \in 1..Len(revealed[sid])}

ListRead(t) ==
  LET T == tasks[t]
      sid == heap[T.g].sessionId
  IN /\ T.pc = "list"
     /\ \E ok \in BOOLEAN :
          /\ Outcome(ok)
          /\ Count(ok)
          /\ Commit(Mem, Step(t, [T EXCEPT !.pc = "listk", !.ok = ok,
                  !.locs = IF ok /\ sid \in Codes THEN RevealedIds(sid) ELSE {}]))
     /\ ret' = NoRet
     /\ UNCHANGED <<session, revealed, conn, quiet>>

Unrevealed(game, revealedIds) == game.allLocationIds \ revealedIds

ListK(t) ==
  LET T == tasks[t]
      game == heap[T.g]
      un == Unrevealed(game, T.locs)
      T0 == [T EXCEPT !.locs = {}]
  IN /\ T.pc = "listk"
     /\ IF ~T.ok THEN RevealReturn(Mem, t, T0, "readFailed", NoLoc, 0)
        ELSE IF un = {} THEN EndGame(Mem, t, [T0 EXCEPT !.out = "exhausted"], "reveal")
        ELSE \E loc \in un :
               /\ Commit([Mem EXCEPT !.hp = [@ EXCEPT ![T.g].currentRevealIndex = @ + 1]],
                         Step(t, [T0 EXCEPT !.pc = "create", !.loc = loc,
                                            !.idx = game.currentRevealIndex + 1]))
               /\ ret' = NoRet
     /\ UNCHANGED <<session, revealed, conn, budget, quiet>>

CreateWrite(t) ==
  LET T == tasks[t]
      sid == heap[T.g].sessionId
  IN /\ T.pc = "create"
     /\ \E ok \in BOOLEAN :
          /\ Outcome(ok)
          /\ Count(ok)
          /\ revealed' = IF ok
                         THEN [revealed EXCEPT ![sid] =
                                 Append(@, [locationId |-> T.loc, revealIndex |-> T.idx])]
                         ELSE revealed
          /\ Commit(Mem, Step(t, [T EXCEPT !.pc = "createk", !.ok = ok,
                                           !.made = IF ok THEN T.idx ELSE 0]))
     /\ ret' = NoRet
     /\ UNCHANGED <<session, conn, quiet>>

\* a variant whose catch block leaves the incremented index in place
RollbackKeeps(index) == index

\* the catch block of the create: game.currentRevealIndex--
Rollback(index) == index - 1

CreateK(t) ==
  LET T == tasks[t]
      cur == heap[T.g].currentRevealIndex
  IN /\ T.pc = "createk"
     /\ IF ~T.ok
        THEN RevealReturn([Mem EXCEPT !.hp = [@ EXCEPT ![T.g].currentRevealIndex = Rollback(cur)]],
                          t, [T EXCEPT !.n = cur], "createFailed", NoLoc, 0)
        ELSE Commit(Mem, Step(t, [T EXCEPT !.pc = "update", !.idx = cur])) /\ ret' = NoRet
     /\ UNCHANGED <<session, revealed, conn, budget, quiet>>

\* `lost` is history, not a column: the index whose write onto the session
\* failed last, 0 once a later write has gone through
UpdateWrite(t) ==
  LET T == tasks[t]
      sid == heap[T.g].sessionId
  IN /\ T.pc = "update"
     /\ \E ok \in BOOLEAN :
          /\ Outcome(ok)
          /\ Count(ok)
          /\ session' = IF ok THEN [session EXCEPT ![sid].currentRevealIndex = T.idx,
                                                       ![sid].lost = 0]
                        ELSE [session EXCEPT ![sid].lost = T.idx]
          /\ Commit(Mem, Step(t, [T EXCEPT !.pc = "detail", !.ok = ok]))
     /\ ret' = NoRet
     /\ UNCHANGED <<revealed, conn, quiet>>

\* a variant that takes the increment back when the detail is missing
DetailMissingRollsBack(m, g) ==
  [m EXCEPT !.hp = [@ EXCEPT ![g].currentRevealIndex = @ - 1]]

\* location.findUnique threw or found nothing: `return null`, nothing else
DetailMissing(m, g) == m

\* location.findUnique, revealedLocation.findFirst, then the broadcast with
\* revealIndex: game.currentRevealIndex as it is at that moment
Detail(t) ==
  LET T == tasks[t]
      cur == heap[T.g].currentRevealIndex
  IN /\ T.pc = "detail"
     /\ \E ok \in BOOLEAN :
          /\ Outcome(ok)
          /\ Count(ok)
          /\ IF ok
             THEN RevealReturn(Broadcast(Mem, T.g, Msg("location-revealed", T.code, T.loc, cur, "")),
                               t, T, "revealed", T.loc, cur)
             ELSE RevealReturn(DetailMissing(Mem, T.g), t, T, "noDetail", NoLoc, 0)
     /\ UNCHANGED <<session, revealed, conn, quiet>>

\* ---- the timer callback ----
TimerFire(h) ==
  LET g == pending[h]
      t == NewTask
      m1 == [Mem EXCEPT !.pd = [@ EXCEPT ![h] = NoGame]]
  IN /\ g # NoGame
     /\ FreeTasks # {}
     /\ Commit(m1, Step(t, RevealEnter(m1, [Idle EXCEPT !.kind = "timer", !.code = heap[g].code], g)))
     /\ Spend("fire")
     /\ ret' = NoRet
     /\ UNCHANGED <<session, revealed, conn, quiet>>

\* ---- the HTTP start route: WAITING -> ACTIVE ----
ActivateSession(c) ==
  /\ session[c].status = "WAITING"
  /\ session' = [session EXCEPT ![c].status = "ACTIVE"]
  /\ Spend("activate")
  /\ ret' = NoRet
  /\ cast' = {}
  /\ UNCHANGED <<revealed, activeGames, heap, clientSet, pending, tasks, conn, log, quiet>>

\* ---- reading the session by code (startGame, manualReveal, open) ----
\* the orders of a sequence
Orders(rows) ==
  {[i \in 1..Len(rows) |-> rows[p[i]]] : p \in Permutations(1..Len(rows))}

\* orderBy: { revealIndex: 'asc' }; the order among rows of equal index is
\* the database's choice
Ascending(rows) ==
  {r \in Orders(rows) : \A i \in 1..(Len(r) - 1) : r[i].revealIndex <= r[i + 1].revealIndex}

LoadSession(t, at, next) ==
  LET T == tasks[t]
      found == Exists(T.code)
  IN /\ T.pc = at
     /\ \E ok \in BOOLEAN :
          /\ Outcome(ok)
          /\ Count(ok)
          /\ \E rs \in (IF T.kind = "open" /\ ok /\ found
                         THEN Ascending(revealed[T.code]) ELSE {<< >>}) :
              Commit(Mem, Step(t, [T EXCEPT !.pc = next, !.ok = ok, !.rows = rs,
                  !.st = IF ok /\ found THEN session[T.code].status ELSE "NONE",
                  !.n = IF ok /\ found THEN session[T.code].currentRevealIndex ELSE 0,
                  !.smax = IF ok /\ found THEN session[T.code].maxReveals ELSE 0,
                  !.idx = IF ok /\ found THEN Len(revealed[T.code]) ELSE 0]))
     /\ ret' = NoRet
     /\ UNCHANGED <<session, revealed, conn, quiet>>

Throw(m, t, T) ==
  /\ Commit(m, Step(t, Idle))
  /\ ret' = [NoRet EXCEPT !.kind = T.kind, !.code = T.code, !.out = "throw", !.had = T.had,
                          !.regs = T.regs, !.regs0 = T.regs0, !.second = T.second,
                          !.next = T.next]

\* location.findMany: the ids of the location table
AllLocationIds ==
  IF budget.world = "nolocs" THEN {} ELSE IF budget.world = "oneloc" THEN {1} ELSE Locs

NewGame(T, timer, clients) ==
  [sessionId |-> T.code, code |-> T.code, timer |-> timer, currentRevealIndex |-> T.n,
   maxReveals |-> T.smax, allLocationIds |-> AllLocationIds, clients |-> clients,
   started |-> T.kind = "start", born |-> T.regs0, gone |-> FALSE]

\* ---- startGame ----
StartGameCall(c) ==
  /\ FreeTasks # {}
  /\ Commit(Mem, Step(NewTask, [Idle EXCEPT !.kind = "start", !.pc = "sload", !.code = c,
                                             !.regs = Registered(c),
                                             !.regs0 = IF Started(c) THEN heap[activeGames[c]].born
                                                       ELSE Registered(c),
                                             !.second = Started(c)]))
  /\ Spend("start")
  /\ quiet' = [quiet EXCEPT ![c] = "no"]
  /\ ret' = NoRet
  /\ UNCHANGED <<session, revealed, conn>>

StartLoad(t) == LoadSession(t, "sload", "sloadk")

\* a variant that also starts a session that is still waiting
StartableOrWaiting(status) == status \in {"ACTIVE", "WAITING"}

Startable(status) == status = "ACTIVE"

StartK(t) ==
  LET T == tasks[t]
      T0 == [T EXCEPT !.st = "", !.n = 0, !.smax = 0, !.idx = 0]
      existing == activeGames[T.code]
      s == ExistingClients(Mem, T.code)
      g == FreshGame(Mem)
      m1 == [Mem EXCEPT !.hp = [@ EXCEPT ![g] = NewGame(T, NoTimer, s)]]
      m2 == StartRevealTimer(m1, g)
      m3 == [m2 EXCEPT !.ag = [@ EXCEPT ![T.code] = g]]
  IN /\ T.pc = "sloadk"
     /\ \E ok \in BOOLEAN :
          /\ Outcome(ok)
          /\ Count(ok)
          /\ IF ~T.ok \/ ~Startable(T.st) \/ ~ok \/ AllLocationIds = {}
             THEN \* a call from the open handler lands in that handler's catch
                  /\ Throw(IF T.ws # 0
                           THEN SendTo(Mem, T.ws, Msg("error", T.code, NoLoc, 0, "Connection failed"))
                           ELSE Mem, t, T)
                  /\ conn' = IF T.ws # 0 THEN [conn EXCEPT ![T.ws].state = "closed"] ELSE conn
             ELSE Commit(m3, Step(t, RevealEnter(m3, T0, g))) /\ ret' = NoRet /\ conn' = conn
     /\ UNCHANGED <<session, revealed, quiet>>

\* ---- message handlers ----
\* The index the next row of a session should get when memory holds no game
\* built from storage for it (the table is empty, or holds only the
\* placeholder made for a connection) and the stored session is ACTIVE, below
\* its maximum and has a location left; 0 otherwise.
NextAfterRestart(c) ==
  IF /\ Exists(c) /\ session[c].status = "ACTIVE"
     /\ session[c].currentRevealIndex < session[c].maxReveals
     /\ AllLocationIds \ {revealed[c][i].locationId : i \in 1..Len(revealed[c])} # {}
     /\ (activeGames[c] = NoGame \/ heap[activeGames[c]].sessionId = "")
  THEN session[c].currentRevealIndex + 1
  ELSE 0

CanSend(w) == conn[w].state = "open"

ManualRevealMsg(w) ==
  LET c == conn[w].code
      t == NewTask
      T == [Idle EXCEPT !.kind = "manual", !.code = c, !.ws = w, !.next = NextAfterRestart(c)]
      g == activeGames[c]
  IN /\ CanSend(w)
     /\ FreeTasks # {}
     /\ IF g # NoGame
        THEN Commit(Mem, Step(t, RevealEnter(Mem, [T EXCEPT !.had = TRUE], g)))
        ELSE Commit(Mem, Step(t, [T EXCEPT !.pc = "mload"]))
     /\ Spend("manual")
     /\ quiet' = IF g = NoGame THEN [quiet EXCEPT ![c] = "no"] ELSE quiet
     /\ ret' = NoRet
     /\ UNCHANGED <<session, revealed, conn>>

ManualLoad(t) == LoadSession(t, "mload", "mloadk")

ManualK(t) ==
  LET T == tasks[t]
      T0 == [T EXCEPT !.st = "", !.n = 0, !.smax = 0, !.idx = 0]
      existing == activeGames[T.code]
      s == ExistingClients(Mem, T.code)
      tm == IF existing # NoGame THEN heap[existing].timer ELSE NoTimer
      g == FreshGame(Mem)
      m1 == [Mem EXCEPT !.hp = [@ EXCEPT ![g] = NewGame(T, tm, s)]]
      m2 == IF existing = NoGame /\ T.st = "ACTIVE" THEN StartRevealTimer(m1, g) ELSE m1
      m3 == [m2 EXCEPT !.ag = [@ EXCEPT ![T.code] = g]]
      err == Msg("error", T.code, NoLoc, 0, "Invalid message format")
  IN /\ T.pc = "mloadk"
     /\ \E ok \in BOOLEAN :
          /\ Outcome(ok)
          /\ Count(ok)
          /\ IF ~T.ok \/ T.st # "ACTIVE" \/ ~ok
             THEN Throw(SendTo(Mem, T.ws, err), t, T)
             ELSE Commit(m3, Step(t, RevealEnter(m3, T0, g))) /\ ret' = NoRet
     /\ UNCHANGED <<session, revealed, conn, quiet>>

StatusWrite(t, at, next, status) ==
  LET T == tasks[t]
  IN /\ T.pc = at
     /\ \E ok \in BOOLEAN :
          /\ Outcome(ok)
          /\ Count(ok)
          /\ session' = IF ok /\ Exists(T.code)
                        THEN [session EXCEPT ![T.code].status = status] ELSE session
          /\ Commit(Mem, Step(t, [T EXCEPT !.pc = next, !.ok = ok /\ Exists(T.code)]))
     /\ ret' = NoRet
     /\ UNCHANGED <<revealed, conn, quiet>>

StatusDone(t, at, type) ==
  LET T == tasks[t]
      m1 == IF T.ok THEN Broadcast(Mem, T.g, Msg(type, T.code, NoLoc, 0, "")) ELSE Mem
  IN /\ T.pc = at
     /\ Commit(m1, Step(t, Idle))
     /\ ret' = [NoRet EXCEPT !.kind = T.kind, !.code = T.code,
                             !.out = IF T.ok THEN "ok" ELSE "writeFailed"]
     /\ quiet' = IF type = "game-paused" /\ quiet[T.code] = "pausing"
                 THEN [quiet EXCEPT ![T.code] = "yes"] ELSE quiet
     /\ UNCHANGED <<session, revealed, conn, budget>>

Noop(kind, c) ==
  /\ ret' = [NoRet EXCEPT !.kind = kind, !.code = c, !.out = "noop"]
  /\ cast' = {}
  /\ UNCHANGED <<activeGames, heap, clientSet, pending, tasks, log>>

\* a variant of the guard that takes every timer for present
TimerAbsentNever(game) == FALSE

\* `!game.timer`
TimerAbsent(game) == game.timer = NoTimer

PauseMsg(w) ==
  LET c == conn[w].code
      g == activeGames[c]
      m1 == ClearTimeout(Mem, heap[g].timer)
      m2 == [m1 EXCEPT !.hp = [@ EXCEPT ![g].timer = NoTimer]]
  IN /\ CanSend(w)
     /\ FreeTasks # {}
     /\ IF g = NoGame \/ TimerAbsent(heap[g])
        THEN Noop("pause", c)
        ELSE /\ Commit(m2, Step(NewTask, [Idle EXCEPT !.kind = "pause", !.pc = "pausew",
                                                    !.code = c, !.ws = w, !.g = g]))
             /\ ret' = NoRet
     /\ Spend("pause")
     /\ quiet' = IF g = NoGame \/ TimerAbsent(heap[g])
                 THEN quiet ELSE [quiet EXCEPT ![c] = "pausing"]
     /\ UNCHANGED <<session, revealed, conn>>

PauseWrite(t) == StatusWrite(t, "pausew", "pausek", "PAUSED")
PauseK(t) == StatusDone(t, "pausek", "game-paused")

ResumeMsg(w) ==
  LET c == conn[w].code
      g == activeGames[c]
  IN /\ CanSend(w)
     /\ FreeTasks # {}
     /\ IF g = NoGame
        THEN Noop("resume", c)
        ELSE /\ Commit(StartRevealTimer(Mem, g),
                       Step(NewTask, [Idle EXCEPT !.kind = "resume", !.pc = "resumew",
                                                  !.code = c, !.ws = w, !.g = g]))
             /\ ret' = NoRet
     /\ Spend("resume")
     /\ quiet' = [quiet EXCEPT ![c] = "no"]
     /\ UNCHANGED <<session, revealed, conn>>

ResumeWrite(t) == StatusWrite(t, "resumew", "resumek", "ACTIVE")
ResumeK(t) == StatusDone(t, "resumek", "game-resumed")

EndMsg(w) ==
  LET c == conn[w].code
  IN /\ CanSend(w)
     /\ FreeTasks # {}
     /\ EndGame(Mem, NewTask, [Idle EXCEPT !.kind = "end", !.code = c, !.ws = w], "handler")
     /\ Spend("end")
     /\ UNCHANGED <<session, revealed, conn, quiet>>

\* ---- connections ----
\* the userId of the connection's URL: connections carry one in the world
\* "players" and none otherwise
UserOf(w) == IF budget.world # "players" THEN "" ELSE IF w = 1 THEN "u1" ELSE "u2"

OpenConn(w, c) ==
  /\ FreeTasks # {}
  /\ conn[w].state = "new"
  /\ \A v \in Conns : conn[v].state = "new" => w <= v   \* connections are interchangeable
  /\ conn' = [conn EXCEPT ![w] = [state |-> "open", code |-> c]]
  /\ Commit(Mem, Step(NewTask, [Idle EXCEPT !.kind = "open", !.pc = "oload", !.code = c, !.ws = w]))
  /\ Spend("open")
  /\ ret' = NoRet
  /\ UNCHANGED <<session, revealed, quiet>>

OpenLoad(t) == LoadSession(t, "oload", "oloadk")

\* a variant of the open handler that takes every code for a session's
SessionFoundAlways(st) == TRUE

\* if (!session) ... else ...
SessionFound(st) == st # "NONE"

OpenK(t) ==
  LET T == tasks[t]
      w == T.ws
      bad == Msg("error", T.code, NoLoc, 0, IF T.ok THEN "Invalid session code" ELSE "Connection failed")
      m1 == AddClient(Mem, T.code, w)
      m2 == SendTo(m1, w, [Msg("connected", T.code, NoLoc, T.idx, T.st) EXCEPT !.rows = T.rows])
  IN /\ T.pc = "oloadk"
     /\ IF ~T.ok \/ ~SessionFound(T.st)
        THEN /\ Commit(SendTo(Mem, w, bad), Step(t, Idle))
             /\ conn' = [conn EXCEPT ![w].state = "closed"]
             /\ ret' = [NoRet EXCEPT !.kind = "open", !.code = T.code, !.out = "rejected"]
        ELSE IF UserOf(w) # "" /\ conn[w].state # "broken"
        THEN \* the connection carries a userId and the send did not throw
             /\ Commit(m2, Step(t, [T EXCEPT !.pc = "joinw"]))
             /\ conn' = conn
             /\ ret' = NoRet
        ELSE /\ Commit(m2, Step(t, Idle))
             /\ conn' = conn
             /\ ret' = [NoRet EXCEPT !.kind = "open", !.code = T.code, !.out = "ok"]
     /\ UNCHANGED <<session, revealed, budget, quiet>>

\* await prisma.playerBoard.findUnique(...)
PlayerRead(t) ==
  LET T == tasks[t]
  IN /\ T.pc = "joinw"
     /\ \E ok \in BOOLEAN :
          /\ Outcome(ok)
          /\ Count(ok)
          /\ Commit(Mem, Step(t, [T EXCEPT !.pc = "joink", !.ok = ok]))
     /\ ret' = NoRet
     /\ UNCHANGED <<session, revealed, conn, quiet>>

\* player-joined to the other clients (a rejected read is caught and
\* logged), then startGame if the session read at the beginning was ACTIVE
\* and the table has no game for the code by now
JoinK(t) ==
  LET T == tasks[t]
      w == T.ws
      m1 == IF T.ok
            THEN BroadcastExcept(Mem, T.code, w, Msg("player-joined", T.code, NoLoc, 0, UserOf(w)))
            ELSE Mem
  IN /\ T.pc = "joink"
     /\ IF T.st = "ACTIVE" /\ m1.ag[T.code] = NoGame
        THEN /\ Commit(m1, Step(t, [Idle EXCEPT !.kind = "start", !.pc = "sload",
                                                !.code = T.code, !.ws = w]))
             /\ ret' = NoRet
        ELSE /\ Commit(m1, Step(t, Idle))
             /\ ret' = [NoRet EXCEPT !.kind = "open", !.code = T.code,
                                     !.out = IF T.ok THEN "joined" ELSE "ok", !.next = w]
     /\ UNCHANGED <<session, revealed, conn, budget, quiet>>

CloseConn(w) ==
  /\ IsOpen(w)
  /\ conn' = [conn EXCEPT ![w].state = "closed"]
  /\ Commit(RemoveClient(Mem, conn[w].code, w), tasks)
  /\ Spend("close")
  /\ ret' = NoRet
  /\ UNCHANGED <<session, revealed, quiet>>

Users == {"u1", "u2"}
Places == {1}

\* the "bingo-claimed" message: winner-found to the game's connections
\* a variant that tells every connection of the game about the bad message
ParseErrorToAll(m, w, c) ==
  IF m.ag[c] # NoGame
  THEN Broadcast(m, m.ag[c], Msg("error", c, NoLoc, 0, "Invalid message format"))
  ELSE m

\* the catch of the message handler: the error goes to the sender
ParseErrorReply(m, w, c) == SendTo(m, w, Msg("error", c, NoLoc, 0, "Invalid message format"))

\* a message on which JSON.parse throws
BadMsg(w) ==
  LET c == conn[w].code
  IN /\ CanSend(w)
     /\ Commit(ParseErrorReply(Mem, w, c), tasks)
     /\ Spend("bad")
     /\ ret' = [NoRet EXCEPT !.kind = "bad", !.code = c, !.out = "error"]
     /\ UNCHANGED <<session, revealed, conn, quiet>>

\* a variant that announces the winner without the place
WinnerFoundNoPlace(c, u, place) == Msg("winner-found", c, NoLoc, 0, u)

\* { type: "winner-found", data: { userId: data.userId, place: data.place } }
WinnerFound(c, u, place) == Msg("winner-found", c, NoLoc, place, u)

BingoMsg(w, u, place) ==
  LET c == conn[w].code
      g == activeGames[c]
      m1 == IF g # NoGame THEN Broadcast(Mem, g, WinnerFound(c, u, place)) ELSE Mem
  IN /\ CanSend(w)
     /\ Commit(m1, tasks)
     /\ Spend("bingo")
     /\ ret' = [NoRet EXCEPT !.kind = "bingo", !.code = c, !.out = "ok",
                             !.user = u, !.place = place]
     /\ UNCHANGED <<session, revealed, conn, quiet>>

\* a connection whose sends start to throw while it still reads as open
BreakConn(w) ==
  /\ conn[w].state = "open"
  /\ conn' = [conn EXCEPT ![w].state = "broken"]
  /\ Commit(Mem, tasks)
  /\ Spend("close")
  /\ ret' = NoRet
  /\ UNCHANGED <<session, revealed, quiet>>

Next ==
  \/ \E c \in InPlay : ActivateSession(c)
  \/ \E c \in InPlay : StartGameCall(c)
  \/ \E w \in Conns, c \in InPlay : OpenConn(w, c)
  \/ \E w \in Conns : CloseConn(w)
  \/ \E w \in Conns : BreakConn(w)
  \/ \E w \in Conns, u \in Users, place \in Places : BingoMsg(w, u, place)
  \/ \E w \in Conns : BadMsg(w)
  \/ \E w \in Conns : ManualRevealMsg(w)
  \/ \E w \in Conns : PauseMsg(w)
  \/ \E w \in Conns : ResumeMsg(w)
  \/ \E w \in Conns : EndMsg(w)
  \/ \E h \in Handles : TimerFire(h)
  \/ \E t \in TaskIds : StartLoad(t)
  \/ \E t \in TaskIds : StartK(t)
  \/ \E t \in TaskIds : ManualLoad(t)
  \/ \E t \in TaskIds : ManualK(t)
  \/ \E t \in TaskIds : OpenLoad(t)
  \/ \E t \in TaskIds : OpenK(t)
  \/ \E t \in TaskIds : PlayerRead(t)
  \/ \E t \in TaskIds : JoinK(t)
  \/ \E t \in TaskIds : SyncRead(t)
  \/ \E t \in TaskIds : SyncK(t)
  \/ \E t \in TaskIds : ListRead(t)
  \/ \E t \in TaskIds : ListK(t)
  \/ \E t \in TaskIds : CreateWrite(t)
  \/ \E t \in TaskIds : CreateK(t)
  \/ \E t \in TaskIds : UpdateWrite(t)
  \/ \E t \in TaskIds : Detail(t)
  \/ \E t \in TaskIds : EndWrite(t)
  \/ \E t \in TaskIds : EndK(t)
  \/ \E t \in TaskIds : PauseWrite(t)
  \/ \E t \in TaskIds : PauseK(t)
  \/ \E t \in TaskIds : ResumeWrite(t)
  \/ \E t \in TaskIds : ResumeK(t)

Spec == Init /\ [][Next]_vars

\* a timer that is due fires
Timers == \E h \in Handles : TimerFire(h)

\* a call that awaits storage goes on when the storage call has been answered
Continue ==
  \E t \in TaskIds :
    \/ StartLoad(t) \/ StartK(t) \/ ManualLoad(t) \/ ManualK(t) \/ OpenLoad(t) \/ OpenK(t)
    \/ SyncRead(t) \/ SyncK(t) \/ ListRead(t) \/ ListK(t)
    \/ CreateWrite(t) \/ CreateK(t) \/ UpdateWrite(t) \/ Detail(t)
    \/ EndWrite(t) \/ EndK(t)

LiveNext ==
  \/ \E c \in InPlay : StartGameCall(c)
  \/ \E w \in Conns, c \in InPlay : OpenConn(w, c)
  \/ \E w \in Conns : ManualRevealMsg(w)
  \/ Timers
  \/ Continue

\* setTimeout callbacks run when due and awaited storage calls are answered
LiveSpec == LiveInit /\ [][LiveNext]_vars /\ WF_vars(Timers) /\ WF_vars(Continue)

TypeOK ==
  /\ \A c \in Codes : session[c].status \in {"NONE", "WAITING", "ACTIVE", "PAUSED", "ENDED"}
  /\ \A c \in Codes : activeGames[c] \in GameIds \cup {NoGame}
  /\ \A h \in Handles : pending[h] \in GameIds \cup {NoGame}
  /\ \A k \in DOMAIN budget \ {"world"} : budget[k] >= 0

\* ======================= properties =======================

RowIndices(c) == {revealed[c][i].revealIndex : i \in 1..Len(revealed[c])}
HasRow(c, loc, idx) ==
  \E i \in 1..Len(revealed[c]) :
    revealed[c][i].locationId = loc /\ revealed[c][i].revealIndex = idx
PendingTimers(c) == {h \in Handles : pending[h] # NoGame /\ heap[pending[h]].code = c}
TimerReveals(c) == {t \in TaskIds : tasks[t].kind = "timer" /\ tasks[t].code = c}

Reveals(c) ==
  {t \in TaskIds : tasks[t].code = c /\ tasks[t].kind \in {"start", "manual", "timer"}}

\* C1: the reveal indices of a session's persisted rows are exactly 1..k for
\* k rows, whatever the interleaving of manual and timer-driven reveals: no
\* index is ever used twice, and once no reveal is in progress none is skipped.
C1_IndicesContiguous ==
  \A c \in Codes :
    /\ \A i, j \in 1..Len(revealed[c]) :
         revealed[c][i].revealIndex = revealed[c][j].revealIndex => i = j
    /\ Reveals(c) = {} => RowIndices(c) = 1..Len(revealed[c])

\* C2: no location is persisted twice for one session.
C2_NoLocationTwice ==
  \A c \in Codes : \A i, j \in 1..Len(revealed[c]) :
    revealed[c][i].locationId = revealed[c][j].locationId => i = j

\* C3: a session has at most one reveal timer outstanding: at most one armed
\* timeout or running timer callback in total.
C3_OneTimer ==
  \A c \in Codes : Cardinality(PendingTimers(c)) + Cardinality(TimerReveals(c)) <= 1

\* C4: once pauseGame has returned for a session, no timer is armed for it
\* until resumeGame or startGame is called again.
C4_PausedIsQuiet ==
  \A c \in Codes : quiet[c] = "yes" => PendingTimers(c) = {}

\* C5: two timer-triggered executions of revealNextLocation are never in
\* progress at once for one session.
C5_NoOverlap ==
  \A c \in Codes : Cardinality(TimerReveals(c)) <= 1

\* C8: a session never has more persisted rows than its maxReveals, also
\* when writes of the session's index fail.
C8_RowsWithinMax ==
  \A c \in Codes : Len(revealed[c]) <= session[c].maxReveals

\* C10: every location-revealed message, and every game-started message
\* that names a location, delivered to a connection carries the location and
\* index of a row that exists in storage.
C10_BroadcastHasRow ==
  \A m \in log :
    (m.type \in {"location-revealed", "game-started"} /\ m.loc # NoLoc /\ m.to # {})
      => HasRow(m.code, m.loc, m.idx)

GameEndedSent(c) == \E m \in log : m.type = "game-ended" /\ m.code = c
Sequential == budget.cap = 1

C11_BroadcastFanOut ==
  \A b \in cast :
    /\ b.to = {w \in b.before : conn[w].state = "open"}
    /\ b.after = b.to
    /\ \E m \in log : m.type = b.type /\ m.to = b.to

C11_Witness ==
  \E b \in cast :
    /\ Cardinality(b.before) = 2
    /\ \E w \in b.before : conn[w].state \in {"broken", "closed"}
    /\ Cardinality(b.to) = 1
    /\ b.after = b.to

StartReturned == ret.kind = "start" /\ ret.out # "throw"

\* C12 as stated: a second startGame for a code with connections registered
\* leaves exactly one ActiveGame for the code, holding exactly the
\* connections that were registered before.
C12_SecondStartKeepsAll ==
  (Sequential /\ StartReturned /\ ret.second /\ ret.regs0 # {})
    => /\ activeGames[ret.code] # NoGame
       /\ Registered(ret.code) = ret.regs0

\* C12 amended: with calls made one at a time, a startGame that returns,
\* a second one for the code included, leaves the table with one
\* ActiveGame for the code unless its own initial reveal ended the game
\* (then none), and that game's connection set is the set registered when
\* the call began less the connections that are no longer open: no
\* connection is added, and none that is open is dropped.
C12_StartKeepsOpenConnections ==
  (Sequential /\ StartReturned)
    => /\ (activeGames[ret.code] # NoGame) <=> ~ret.ended
       /\ activeGames[ret.code] # NoGame
            => /\ Registered(ret.code) \subseteq ret.regs
               /\ {w \in ret.regs : conn[w].state = "open"} \subseteq Registered(ret.code)

C12_Witness ==
  /\ StartReturned /\ ret.second
  /\ Cardinality(ret.regs0) = 2
  /\ ret.regs = ret.regs0
  /\ activeGames[ret.code] # NoGame
  /\ Registered(ret.code) = ret.regs0

StartRejected == ret.kind = "start" /\ ret.out = "throw"

\* C13: startGame rejects when the session does not exist, is not ACTIVE or
\* the location table is empty, and the step in which a startGame call
\* rejects leaves the table of games, the game objects, the armed timers,
\* the connection sets and the stored session and rows exactly as they were.
C13_RejectedStartChangesNothing ==
  [][/\ \A t \in TaskIds :
          (/\ tasks[t].kind = "start" /\ tasks[t].pc = "sloadk"
           /\ StartK(t)
           /\ (tasks[t].st # "ACTIVE" \/ AllLocationIds = {}))
             => StartRejected'
     /\ (ret'.kind = "start" /\ ret'.out = "throw")
          => UNCHANGED <<activeGames, heap, pending, clientSet, session, revealed>>]_vars

C13_Witness ==
  /\ StartRejected
  /\ Registered(ret.code) # {}
  /\ session[ret.code].status = "WAITING"

C13_WitnessAbsent == StartRejected /\ budget.world = "absent"
C13_WitnessNoLocs == StartRejected /\ budget.world = "nolocs" /\ Registered(ret.code) # {}

\* C14: a startGame call that returns a game for a session whose stored
\* index was 0, with maxReveals at least 1 and locations available, has
\* created exactly one row, of index 1, and game-started carrying that
\* row's location went to every connection registered before the call.
C14_StartRevealsFirstRow ==
  (Sequential /\ StartReturned /\ ret.idx0 = 0 /\ ret.gmax >= 1)
    => /\ ret.made = 1
       /\ \E m \in log : /\ m.type = "game-started"
                          /\ HasRow(ret.code, m.loc, 1)
                          /\ ret.regs \subseteq m.to

C14_NoRowAfterStart ==
  /\ Sequential /\ StartReturned /\ ret.idx0 = 0 /\ ret.gmax >= 1
  /\ revealed[ret.code] = << >>
  /\ \A w \in ret.regs : conn[w].state = "open"

\* C15: once a session's stored status is ENDED, no step changes it again.
C15_EndedIsFinal ==
  [][\A c \in Codes : session[c].status = "ENDED" => session'[c].status = "ENDED"]_vars

TableTimer(c) == heap[activeGames[c]].timer

\* C16: when the status write of pauseGame, resumeGame or endGame fails the
\* call still returns normally and the in-memory transition has happened:
\* after pauseGame the game has no timer, after resumeGame its timer is
\* armed, after endGame the timer is stopped and the code has no ActiveGame.
C16_WriteFailureStillTransitions ==
  Sequential =>
    /\ (ret.kind = "pause" /\ ret.out = "writeFailed")
         => (activeGames[ret.code] # NoGame /\ TableTimer(ret.code) = NoTimer)
    /\ (ret.kind = "resume" /\ ret.out = "writeFailed")
         => (activeGames[ret.code] # NoGame /\ TableTimer(ret.code) \in Handles)
    /\ ret.kind = "end"
         => (activeGames[ret.code] = NoGame /\ PendingTimers(ret.code) = {})

C16_PauseResumePart ==
  Sequential =>
    /\ (ret.kind = "pause" /\ ret.out = "writeFailed")
         => (activeGames[ret.code] # NoGame /\ TableTimer(ret.code) = NoTimer)
    /\ (ret.kind = "resume" /\ ret.out = "writeFailed")
         => (activeGames[ret.code] # NoGame /\ TableTimer(ret.code) \in Handles)

C16_PauseFailed == Sequential /\ ret.kind = "pause" /\ ret.out = "writeFailed"
C16_ResumeFailed == Sequential /\ ret.kind = "resume" /\ ret.out = "writeFailed"

Armed == {h \in Handles : pending[h] # NoGame}

\* the step is the continuation of a manualReveal call that found no game:
\* the session and the locations have been read
ManualLoaded(t) == tasks[t].kind = "manual" /\ tasks[t].pc = "mloadk" /\ ManualK(t)

\* the game the step put in the table was built from what the call read
BuiltFromStorage(t) ==
  LET c == tasks[t].code
      g == activeGames'[c]
  IN /\ g # NoGame /\ g # activeGames[c]
     /\ heap'[g].currentRevealIndex = tasks[t].n
     /\ heap'[g].maxReveals = tasks[t].smax
     /\ heap'[g].sessionId = c
     /\ \E u \in TaskIds : /\ tasks'[u].kind = "manual" /\ tasks'[u].pc = "sync"
                            /\ tasks'[u].g = g
     /\ Cardinality({u \in TaskIds : tasks'[u].pc = "sync"})
          = Cardinality({u \in TaskIds : tasks[u].pc = "sync"}) + 1

\* the step armed one timer, for the game it put in the table
ArmedOne(t) ==
  LET g == activeGames'[tasks[t].code]
  IN /\ Cardinality(Armed') = Cardinality(Armed) + 1
     /\ heap'[g].timer \in Handles
     /\ pending'[heap'[g].timer] = g

ManualThrew == ret'.kind = "manual" /\ ret'.out = "throw"

\* C17 as stated: a manualReveal that found no ActiveGame and read an ACTIVE
\* session builds the game from the stored index and maximum, arms exactly
\* one timer, puts the game in the table and goes into one
\* revealNextLocation; if the session is missing or not ACTIVE it throws and
\* the table is as before.
C17_RebuildArmsOneTimer ==
  [][\A t \in TaskIds :
       ManualLoaded(t) =>
         IF tasks[t].st = "ACTIVE"
         THEN ManualThrew \/ (BuiltFromStorage(t) /\ ArmedOne(t))
         ELSE ManualThrew /\ UNCHANGED <<activeGames, heap, pending, clientSet>>]_vars

\* C17 amended: the same, but the timer is armed only if the code still has
\* no ActiveGame when the session has been read; if a connection was
\* registered for the code in the meantime, the new game takes that game's
\* connection set and timer field and no timer is armed.
C17_RebuildArmsTimerIfStillAbsent ==
  [][\A t \in TaskIds :
       ManualLoaded(t) =>
         IF tasks[t].st = "ACTIVE"
         THEN \/ ManualThrew /\ UNCHANGED <<activeGames, heap, pending, clientSet>>
              \/ /\ BuiltFromStorage(t)
                 /\ IF activeGames[tasks[t].code] = NoGame
                    THEN ArmedOne(t)
                    ELSE /\ Armed' = Armed
                         /\ heap'[activeGames'[tasks[t].code]].timer
                              = heap[activeGames[tasks[t].code]].timer
                         /\ heap'[activeGames'[tasks[t].code]].clients
                              = heap[activeGames[tasks[t].code]].clients
         ELSE ManualThrew /\ UNCHANGED <<activeGames, heap, pending, clientSet>>]_vars

C17_Witness ==
  /\ ret.kind = "manual" /\ ~ret.had /\ ret.out # "throw"
  /\ ret.made = 1
  /\ activeGames[ret.code] # NoGame
  /\ heap[activeGames[ret.code]].sessionId = ret.code

\* C18: with no game built from storage in memory (as after a restart), a
\* stored session that is ACTIVE, below its maximum and with a location
\* left, a manual-reveal from a connected client creates one row with the
\* next index and does not leave the session stored as ENDED.
C18_ManualAfterRestartReveals ==
  (Sequential /\ ret.kind = "manual" /\ ret.next > 0)
    => /\ ret.made = 1
       /\ \E i \in 1..Len(revealed[ret.code]) : revealed[ret.code][i].revealIndex = ret.next
       /\ session[ret.code].status # "ENDED"

\* the same call with no storage failure at all: the session is stored as ENDED
C18_EndedWithoutFailure ==
  /\ Sequential /\ ret.kind = "manual" /\ ret.next > 0
  /\ budget.fail = MaxFail
  /\ ret.made = 0
  /\ session[ret.code].status = "ENDED"

\* the step is the rollback of game g's increment after a failed create
RollbackStep(g) ==
  \E t \in TaskIds : /\ tasks[t].pc = "createk" /\ tasks[t].g = g /\ ~tasks[t].ok
                      /\ CreateK(t)

\* C19: from one state to the next the currentRevealIndex of a game object
\* never goes down, except in the step that rolls back the increment after
\* a failed create.
C19_IndexNeverRegresses ==
  [][\A g \in GameIds :
       (/\ heap[g] # NullGame /\ heap'[g] # NullGame
        /\ heap'[g].currentRevealIndex < heap[g].currentRevealIndex)
         => RollbackStep(g)]_vars

\* C20: a bingo-claimed message for a code that has a game is answered by
\* one winner-found broadcast carrying the userId and the place that were
\* sent; it reaches exactly the registered connections that are open, the
\* sender included, and no connection that has disconnected, and those
\* connections are what the registry holds afterwards.
C20_WinnerFoundToRemaining ==
  (ret.kind = "bingo" /\ activeGames[ret.code] # NoGame)
    => /\ Cardinality(cast) = 1
       /\ \A b \in cast :
            /\ b.type = "winner-found"
            /\ b.st = ret.user /\ b.idx = ret.place
            /\ b.to = {w \in b.before : conn[w].state = "open"}
            /\ \A w \in Conns : conn[w].state = "closed" => w \notin b.to
            /\ Registered(ret.code) = b.to
            /\ \E m \in log : /\ m.type = "winner-found" /\ m.to = b.to
                               /\ m.st = ret.user /\ m.idx = ret.place

\* two connections were registered, one has disconnected, the other claimed
C20_Witness ==
  /\ ret.kind = "bingo"
  /\ \E w, v \in Conns :
       /\ w # v
       /\ conn[w].state = "closed" /\ conn[w].code = ret.code
       /\ conn[v].state = "open"
       /\ \E m \in log : m.type \in {"game-started", "location-revealed"} /\ m.to = {w, v}
       /\ \E b \in cast : b.type = "winner-found" /\ b.to = {v} /\ b.before = {v}

\* the step is the open handler's continuation for task t, after its read
\* of the session
OpenLoaded(t) == tasks[t].kind = "open" /\ tasks[t].pc = "oloadk" /\ OpenK(t)

RowsOf(c) == {revealed[c][i] : i \in 1..Len(revealed[c])}

\* C22: when the open handler has read a session for the code, it registers
\* the connection in the game the table holds for the code and sends it
\* connected, with the status it read and the rows it read, lowest reveal
\* index first; nothing was delivered to the connection before.
C22_ValidCodeIsRegisteredAndGreeted ==
  [][\A t \in TaskIds :
       (OpenLoaded(t) /\ tasks[t].ok /\ tasks[t].st # "NONE")
         => LET w == tasks[t].ws
                c == tasks[t].code
            IN /\ activeGames'[c] # NoGame
               /\ w \in clientSet'[heap'[activeGames'[c]].clients]
               /\ \A m \in log : w \notin m.to
               /\ conn[w].state = "open"
                    => \E m \in log' \ log :
                         /\ log' \ log = {m}
                         /\ m.type = "connected" /\ m.to = {w} /\ m.code = c
                         /\ m.st = tasks[t].st
                         /\ Len(m.rows) = tasks[t].idx
                         /\ \A i \in 1..Len(m.rows) : m.rows[i] \in RowsOf(c)
                         /\ \A i \in 1..(Len(m.rows) - 1) :
                              m.rows[i].revealIndex <= m.rows[i + 1].revealIndex]_vars

\* what holds of the open handler: the registration and the content of
\* connected, without the claim that nothing was delivered before
C22_RegisteredAndGreeted ==
  [][\A t \in TaskIds :
       (OpenLoaded(t) /\ tasks[t].ok /\ tasks[t].st # "NONE")
         => LET w == tasks[t].ws
                c == tasks[t].code
            IN /\ activeGames'[c] # NoGame
               /\ w \in clientSet'[heap'[activeGames'[c]].clients]
               /\ conn[w].state = "open"
                    => \E m \in log' \ log :
                         /\ log' \ log = {m}
                         /\ m.type = "connected" /\ m.to = {w} /\ m.code = c
                         /\ m.st = tasks[t].st
                         /\ Len(m.rows) = tasks[t].idx
                         /\ \A i \in 1..Len(m.rows) : m.rows[i] \in RowsOf(c)
                         /\ \A i \in 1..(Len(m.rows) - 1) :
                              m.rows[i].revealIndex <= m.rows[i + 1].revealIndex]_vars

\* a connection was greeted with two rows of different index
C22_Witness ==
  /\ ret.kind = "open" /\ ret.out = "ok"
  /\ \E m \in log :
       /\ m.type = "connected" /\ Len(m.rows) = 2
       /\ m.rows[1].revealIndex < m.rows[2].revealIndex
       /\ \E w \in m.to : w \in Registered(ret.code)

\* C23: a message that cannot be parsed is answered with an error to the
\* connection that sent it; nothing is sent to any other connection, and
\* the table, the game objects with their index, the timers, the connection
\* sets and the stored session and rows are as before.
C23_BadMessageOnlyAnswersSender ==
  [][\A w \in Conns :
       BadMsg(w)
         => LET err == [Msg("error", conn[w].code, NoLoc, 0, "Invalid message format")
                          EXCEPT !.to = {w}]
            IN /\ err \in log'
               /\ log' \ log \subseteq {err}
               /\ cast' = {}
               /\ UNCHANGED <<activeGames, heap, pending, clientSet, session, revealed,
                              tasks, conn>>]_vars

\* a bad message came from one of two registered connections of a game
\* whose timer is armed
C23_Witness ==
  /\ ret.kind = "bad"
  /\ Cardinality(Registered(ret.code)) = 2
  /\ PendingTimers(ret.code) # {}
  /\ \E m \in log : m.type = "error" /\ m.st = "Invalid message format"
                      /\ Cardinality(m.to) = 1 /\ m.to \subseteq Registered(ret.code)

\* the step belongs to a call, a message, a connection event or a timer of
\* code c
StepOn(c) ==
  \/ ActivateSession(c)
  \/ StartGameCall(c)
  \/ \E w \in Conns : OpenConn(w, c)
  \/ \E w \in Conns :
       /\ conn[w].code = c
       /\ \/ CloseConn(w) \/ BreakConn(w) \/ BadMsg(w)
          \/ ManualRevealMsg(w) \/ PauseMsg(w) \/ ResumeMsg(w) \/ EndMsg(w)
          \/ \E u \in Users, place \in Places : BingoMsg(w, u, place)
  \/ \E h \in Handles : pending[h] # NoGame /\ heap[pending[h]].code = c /\ TimerFire(h)
  \/ \E t \in TaskIds :
       /\ tasks[t].code = c
       /\ \/ StartLoad(t) \/ StartK(t) \/ ManualLoad(t) \/ ManualK(t)
          \/ OpenLoad(t) \/ OpenK(t)
          \/ SyncRead(t) \/ SyncK(t) \/ ListRead(t) \/ ListK(t)
          \/ CreateWrite(t) \/ CreateK(t) \/ UpdateWrite(t) \/ Detail(t)
          \/ EndWrite(t) \/ EndK(t)
          \/ PauseWrite(t) \/ PauseK(t) \/ ResumeWrite(t) \/ ResumeK(t)

\* nothing of code d changes in the step and nothing is delivered to its
\* connections
Frame(d) ==
  /\ session'[d] = session[d]
  /\ revealed'[d] = revealed[d]
  /\ activeGames'[d] = activeGames[d]
  /\ \A g \in GameIds :
       heap[g].code = d
         => heap'[g] = heap[g] /\ clientSet'[heap[g].clients] = clientSet[heap[g].clients]
  /\ \A g \in GameIds : heap'[g].code = d => heap[g].code = d
  /\ \A h \in Handles :
       ((pending[h] # NoGame /\ heap[pending[h]].code = d)
          \/ (pending'[h] # NoGame /\ heap'[pending'[h]].code = d))
         => pending'[h] = pending[h]
  /\ \A w \in Conns : conn[w].code = d => conn'[w] = conn[w]
  /\ {tasks'[t] : t \in {u \in TaskIds : tasks'[u].code = d}}
       = {tasks[t] : t \in {u \in TaskIds : tasks[u].code = d}}
  /\ \A m \in log' \ log : m.code # d /\ \A w \in m.to : conn[w].code # d
  /\ \A b \in cast' : \A w \in b.before \cup b.to : conn[w].code # d

\* C24: a step of an operation on one session code (connect, disconnect,
\* start, pause, resume, end, manual or timer reveal, with the broadcasts
\* it makes) leaves every other code's ActiveGame, timers, connection set,
\* rows and stored status as they were and delivers nothing to a connection
\* of another code.
C24_OtherSessionsUntouched ==
  [][budget.world = "two"
       => \A c \in Codes : StepOn(c) => \A d \in Codes \ {c} : Frame(d)]_vars

\* both sessions have a game with a registered connection, one of the games
\* has its timer armed, and the last step broadcast to one of them
C24_Witness ==
  /\ budget.world = "two"
  /\ \A c \in Codes : activeGames[c] # NoGame /\ Registered(c) # {}
  /\ \E c \in Codes : PendingTimers(c) # {}
  /\ \E b \in cast : b.to # {}

Ended(c) ==
  /\ session[c].status = "ENDED"
  /\ activeGames[c] = NoGame
  /\ \E m \in log : m.type = "game-ended" /\ m.code = c

\* min(maxReveals, number of locations)
MostReveals(c) ==
  IF session[c].maxReveals <= Cardinality(AllLocationIds)
  THEN session[c].maxReveals ELSE Cardinality(AllLocationIds)

\* C25: when timers that are due fire and storage calls are answered and
\* never fail, a session that has a timer armed gets to its end: ENDED is
\* stored, game-ended has been broadcast and the code has no ActiveGame; and
\* the session never has more rows than the smaller of maxReveals and the
\* number of locations.
C25_ArmedGameReachesEnd ==
  /\ \A c \in Codes : (PendingTimers(c) # {}) ~> Ended(c)
  /\ [](\A c \in Codes : Len(revealed[c]) <= MostReveals(c))

\* what holds of C25: the same when no two calls overlap
C25_SequentialGameReachesEnd ==
  /\ \A c \in Codes : (Sequential /\ PendingTimers(c) # {}) ~> Ended(c)
  /\ [](Sequential => \A c \in Codes : Len(revealed[c]) <= MostReveals(c))

\* a game ended after as many reveals as it may have
C25_Witness ==
  \E c \in Codes :
    /\ Ended(c)
    /\ Len(revealed[c]) = MostReveals(c)
    /\ \E m \in log : m.type = "game-started" /\ m.code = c
    /\ Sequential /\ ret.kind = "timer" /\ ret.ended

\* C26: a revealNextLocation call whose re-synchronising read failed has
\* revealed nothing when it returns: it created no row, broadcast no
\* location-revealed and left the in-memory index as it found it.
C26_FailedSyncRevealsNothing ==
  ret.sync = "failed" => ret.made = 0 /\ ~ret.sent /\ ret.idx1 = ret.idx0

\* the call in slot t creates a row in this step
Creates(t) ==
  /\ CreateWrite(t)
  /\ Len(revealed'[heap[tasks[t].g].sessionId]) > Len(revealed[heap[tasks[t].g].sessionId])

\* C27: when the write of the index onto the session failed after the row
\* with index N was created, that reveal is still there and was broadcast,
\* and the next row created for the session has index N+1, never N again.
C27_NextRevealAfterLostWriteIsNPlus1 ==
  [][\A t \in TaskIds :
       /\ (Detail(t) /\ ret'.out = "revealed" /\ ~ret'.wrote)
            => ret'.sent /\ HasRow(ret'.code, ret'.loc, ret'.made)
       /\ (Creates(t) /\ session[tasks[t].code].lost > 0)
            => tasks[t].idx = session[tasks[t].code].lost + 1]_vars

\* what holds of C27: the reveal whose index write failed stays committed
\* and is broadcast
C27_LostWriteKeepsReveal ==
  (ret.out = "revealed" /\ ~ret.wrote)
    => /\ ret.sent /\ ret.made > 0
       /\ HasRow(ret.code, ret.loc, ret.made)
       /\ Sequential => ret.idx1 = ret.made

\* C28 as stated: when the detail fetch fails after the row was created, the
\* row is there, the index is advanced in memory and on the session, and no
\* location-revealed was broadcast (runs without overlapping calls).
C28_NoDetailStaysCommitted ==
  (Sequential /\ ret.out = "noDetail")
    => /\ HasRow(ret.code, ret.loc, ret.made)
       /\ ret.idx1 = ret.made
       /\ session[ret.code].currentRevealIndex = ret.made
       /\ ~ret.sent

\* C28 amended: the step in which the detail fetch fails returns the call
\* with no location and starts no other reveal; it leaves rows, session and
\* the in-memory index as they are and broadcasts no location-revealed, so
\* the row created by the call stays; startGame then broadcasts
\* game-started without a location. With no overlapping call the in-memory
\* index is the row's index, and the session has it when the index write of
\* the call succeeded.
C28_NoDetailKeepsReveal ==
  [][\A t \in TaskIds :
       (Detail(t) /\ ret'.out = "noDetail")
         => /\ ret'.made > 0 /\ HasRow(ret'.code, ret'.loc, ret'.made)
            /\ revealed' = revealed /\ session' = session
            /\ ret'.idx1 = heap[tasks[t].g].currentRevealIndex
            /\ ~ret'.sent
            /\ \A b \in cast' : b.type # "location-revealed"
            /\ Cardinality({u \in TaskIds : tasks'[u].kind # "idle"}) = Cardinality(Busy) - 1
            /\ ret'.kind = "start"
                 => \E b \in cast' : b.type = "game-started"
            /\ Sequential => ret'.idx1 = ret'.made
            /\ (Sequential /\ ret'.wrote)
                 => session[ret'.code].currentRevealIndex = ret'.made]_vars

C28_Witness ==
  /\ ret.out = "noDetail" /\ ret.kind = "start" /\ ret.wrote
  /\ HasRow(ret.code, ret.loc, ret.made)
  /\ session[ret.code].currentRevealIndex = ret.made
  /\ \E m \in log : m.type = "game-started" /\ m.code = ret.code /\ m.loc = NoLoc
  /\ \A m \in log : m.type # "location-revealed"

\* a revealNextLocation call returned after finding the index at maxReveals
\* or no location left
Terminal ==
  ret.out \in {"maxed", "exhausted"} /\ ret.kind \in {"start", "manual", "timer"}

\* C29: a revealNextLocation call that finds the synced index at maxReveals
\* or no unrevealed location has, when it returns, created no row and
\* broadcast no location-revealed, and the game is ended: ENDED is stored,
\* game-ended was broadcast and the code has no ActiveGame (runs without
\* overlapping calls).
C29_TerminalRevealEndsGame ==
  (Sequential /\ Terminal)
    => ret.made = 0 /\ ~ret.sent /\ Ended(ret.code)

\* what holds of C29: the call never creates a row or broadcasts a
\* location, and the game is ended whenever endGame's status write succeeded
C29_TerminalRevealEndsGameWhenWritten ==
  Terminal
    => /\ ret.made = 0 /\ ~ret.sent
       /\ (Sequential /\ ret.ended) => Ended(ret.code)

\* a revealNextLocation call returned a location and none of its storage
\* calls failed
AllSucceeded == ret.out = "revealed" /\ ret.sync = "read" /\ ret.wrote

\* C30: a revealNextLocation call whose storage calls all succeed and that
\* finds a location creates one row and leaves the in-memory index exactly
\* one greater than it was when the call began (runs without overlapping
\* calls).
C30_OneRowIndexPlusOne ==
  (Sequential /\ AllSucceeded)
    => /\ ret.made > 0 /\ HasRow(ret.code, ret.loc, ret.made)
       /\ ret.idx1 = ret.idx0 + 1

\* what holds of C30: such a call leaves the index one greater than the
\* value it read from storage, and that is the index of its row
C30_OneRowSyncedIndexPlusOne ==
  (Sequential /\ AllSucceeded)
    => /\ ret.made = ret.base + 1 /\ HasRow(ret.code, ret.loc, ret.made)
       /\ ret.idx1 = ret.made

\* what holds of C30: no call creates more than one row
C30_AtMostOneRowPerCall ==
  [][/\ \A c \in Codes : Len(revealed'[c]) <= Len(revealed[c]) + 1
     /\ \A t \in TaskIds : CreateWrite(t) => tasks[t].made = 0]_vars

\* the highest revealIndex among the session's rows, 0 when it has none
HighestRow(c) ==
  IF revealed[c] = << >> THEN 0
  ELSE CHOOSE n \in RowIndices(c) : \A k \in RowIndices(c) : k <= n

\* the games that startGame, resumeGame or manualReveal built from a session
\* record (addClient's stand-in has sessionId '')
BuiltGames(c) ==
  IF activeGames[c] # NoGame /\ heap[activeGames[c]].sessionId = c
  THEN {activeGames[c]} ELSE {}

\* C31: whenever no revealNextLocation call is in progress for a session,
\* the in-memory index of the session's game equals the highest revealIndex
\* among the session's rows, 0 when there are none (runs without overlapping
\* calls, games built from the session record).
C31_IndexIsHighestRow ==
  \A c \in Codes :
    (Sequential /\ Reveals(c) = {})
      => \A g \in BuiltGames(c) : heap[g].currentRevealIndex = HighestRow(c)

\* C32: once endGame has stored ENDED and broadcast game-ended for a session,
\* no step creates a row for it and no step delivers location-revealed,
\* game-started, game-paused or game-resumed to a connection of that session.
C32_NothingAfterGameEnded ==
  [][\A c \in Codes :
       (GameEndedSent(c) /\ session[c].status = "ENDED")
         => /\ revealed'[c] = revealed[c]
            /\ \A b \in cast' :
                 b.type \in {"location-revealed", "game-started", "game-paused", "game-resumed"}
                   => \A w \in b.to : conn[w].code # c]_vars

\* C32, the case inside startGame: the step in which endGame broadcasts
\* game-ended delivers no game-started after it
C32_NoGameStartedBehindGameEnded ==
  [][\A t \in TaskIds :
       (EndK(t) /\ tasks[t].ok /\ tasks[t].kind = "start")
         => \A b \in cast' : b.type = "game-started" => b.to = {}]_vars

\* C33: a game that endGame has removed from the table is never handed to
\* revealNextLocation by a timer again.
C33_NoTimerRevealAfterRemoval ==
  [][\A h \in Handles :
       (TimerFire(h) /\ pending[h] # NoGame) => ~heap[pending[h]].gone]_vars

\* the step delivers a message of this type to some connection
Delivers(type) == \E b \in cast' : b.type = type /\ b.to # {}

\* C34: game-paused, game-resumed and game-ended are delivered only by a
\* call whose status write succeeded; in particular the end handler delivers
\* no game-ended when the ENDED write failed.
C34_DeliveredOnlyAfterWrite ==
  [][\A t \in TaskIds :
       /\ (PauseK(t) /\ Delivers("game-paused")) => tasks[t].ok
       /\ (ResumeK(t) /\ Delivers("game-resumed")) => tasks[t].ok
       /\ (EndK(t) /\ Delivers("game-ended")) => tasks[t].ok]_vars

\* what holds of C34: the pause and resume parts, and endGame's own broadcast
\* (the reveal engine's end of game)
C34_PauseResumeAfterWrite ==
  [][\A t \in TaskIds :
       /\ (PauseK(t) /\ Delivers("game-paused")) => tasks[t].ok
       /\ (ResumeK(t) /\ Delivers("game-resumed")) => tasks[t].ok
       /\ (EndK(t) /\ tasks[t].after = "reveal" /\ Delivers("game-ended")) => tasks[t].ok]_vars

\* C35: pause, resume and end for a code with no game in the table, and
\* pause for a game without a timer, do nothing: no storage write, no
\* broadcast, and table, games, timers and connection sets stay as they are.
C35_AbsentIsNoop ==
  [][\A w \in Conns :
       LET c == conn[w].code
           g == activeGames[c]
       IN (\/ PauseMsg(w) /\ (g = NoGame \/ heap[g].timer = NoTimer)
           \/ ResumeMsg(w) /\ g = NoGame
           \/ EndMsg(w) /\ g = NoGame)
            => /\ UNCHANGED <<session, revealed, activeGames, heap, clientSet, pending, tasks>>
               /\ cast' = {} /\ log' = log]_vars

\* a second pause right after the first returned as a no-op
C35_Witness ==
  /\ ret.kind = "pause" /\ ret.out = "noop"
  /\ activeGames[ret.code] # NoGame
  /\ heap[activeGames[ret.code]].started
  /\ heap[activeGames[ret.code]].timer = NoTimer
  /\ session[ret.code].status = "PAUSED"
  /\ \E m \in log : m.type = "game-paused" /\ m.code = ret.code

\* resume and end found no game for the code
C35_WitnessNoGame ==
  /\ ret.kind \in {"resume", "end"} /\ ret.out \in {"noop", "ok"}
  /\ activeGames[ret.code] = NoGame
  /\ session[ret.code].status = "ENDED"

\* ---- C36 ----
\* C36: broadcastExcept delivers to every open registered connection of the
\* session other than the excluded one and never to the excluded one: when
\* the open handler of a connection with a userId reaches its player-joined
\* broadcast, the message goes to exactly the other registered connections
\* that are open and whose send succeeds, and not to the joining connection.
C36_PlayerJoinedToOthersOnly ==
  [][\A t \in TaskIds :
       (JoinK(t) /\ tasks[t].ok /\ activeGames[tasks[t].code] # NoGame)
         => /\ \E b \in cast' :
                 /\ b.type = "player-joined"
                 /\ b.to = {v \in Registered(tasks[t].code) \ {tasks[t].ws} :
                               conn[v].state = "open"}
            /\ \A b \in cast' : b.type = "player-joined" => tasks[t].ws \notin b.to
            /\ \A m \in log' \ log : tasks[t].ws \notin m.to]_vars

\* the second connection of a session has joined: player-joined went to the
\* first connection, and the joining connection, open and registered, is
\* not among the receivers
C36_Witness ==
  /\ ret.kind = "open" /\ ret.out = "joined"
  /\ conn[ret.next].state = "open"
  /\ ret.next \in Registered(ret.code)
  /\ \E b \in cast : /\ b.type = "player-joined"
                     /\ b.to # {}
                     /\ ret.next \notin b.to

\* ---- C37 ----
\* the fields of a game other than its connection set are kept by the step
SameGame(g) ==
  /\ heap'[g].sessionId = heap[g].sessionId
  /\ heap'[g].currentRevealIndex = heap[g].currentRevealIndex
  /\ heap'[g].maxReveals = heap[g].maxReveals
  /\ heap'[g].allLocationIds = heap[g].allLocationIds
  /\ heap'[g].timer = heap[g].timer
  /\ heap'[g].clients = heap[g].clients

\* the connection sets other than the one of game g are kept by the step
OtherSetsKept(g) ==
  \A s \in DOMAIN clientSet : s # heap[g].clients => clientSet'[s] = clientSet[s]

\* the game the step has put in the table for code c is addClient's
\* placeholder with the single connection w
IsPlaceholder(c, w) ==
  /\ activeGames'[c] # NoGame
  /\ LET game == heap'[activeGames'[c]]
     IN /\ game.sessionId = "" /\ game.currentRevealIndex = 0 /\ game.maxReveals = 0
        /\ game.allLocationIds = {} /\ game.timer = NoTimer
        /\ clientSet'[game.clients] = {w}

\* C37: addClient always succeeds and removeClient is a no-op when the game
\* or the connection is absent; on an existing game both change only its
\* connection set (index, maxReveals, locations, timer, the table, the rows
\* and the session records stay as they were), and addClient creates a
\* placeholder game only when the code has no entry.
C37_ClientCallsTouchOnlyClients ==
  [][/\ \A t \in TaskIds :
          (OpenK(t) /\ tasks[t].ok /\ SessionFound(tasks[t].st))
            => LET c == tasks[t].code
                   w == tasks[t].ws
               IN /\ session' = session /\ revealed' = revealed /\ pending' = pending
                  /\ \A d \in Codes \ {c} : activeGames'[d] = activeGames[d]
                  /\ IF activeGames[c] # NoGame
                     THEN /\ activeGames'[c] = activeGames[c]
                          /\ SameGame(activeGames[c])
                          /\ OtherSetsKept(activeGames[c])
                          /\ clientSet'[heap[activeGames[c]].clients] = Registered(c) \cup {w}
                     ELSE IsPlaceholder(c, w)
     /\ \A w \in Conns :
          CloseConn(w)
            => LET c == conn[w].code
               IN /\ session' = session /\ revealed' = revealed /\ pending' = pending
                  /\ activeGames' = activeGames
                  /\ IF activeGames[c] # NoGame
                     THEN /\ SameGame(activeGames[c])
                          /\ OtherSetsKept(activeGames[c])
                          /\ clientSet'[heap[activeGames[c]].clients] = Registered(c) \ {w}
                     ELSE clientSet' = clientSet
                  /\ w \notin Registered(c) => clientSet' = clientSet]_vars

\* a connection has been added to a game that startGame built, which has
\* revealed a location and whose timer is pending
C37_Witness ==
  /\ ret.kind = "open" /\ ret.out = "ok"
  /\ Started(ret.code)
  /\ heap[activeGames[ret.code]].currentRevealIndex > 0
  /\ PendingTimers(ret.code) # {}
  /\ Registered(ret.code) # {}

\* a connection has been added for a code that had no game: the table holds
\* the placeholder
C37_WitnessPlaceholder ==
  /\ ret.kind = "open" /\ ret.out = "ok"
  /\ activeGames[ret.code] # NoGame
  /\ heap[activeGames[ret.code]].sessionId = ""
  /\ Registered(ret.code) # {}

\* ---- C38 ----
\* no location of the table is left without a row of the session
PoolExhausted(c) ==
  AllLocationIds \ {revealed[c][i].locationId : i \in 1..Len(revealed[c])} = {}

\* the step is the status write of an endGame call made by the end handler
EndCommandWrite(c) ==
  \E t \in TaskIds : EndWrite(t) /\ tasks[t].code = c /\ tasks[t].after = "handler"

\* C38: a session's status is stored as ENDED only by an end command, or
\* when its stored currentRevealIndex has reached its stored maxReveals, or
\* when no location is left to reveal; so a manual-reveal or resume on a
\* game that is only addClient's placeholder never ends the session.
C38_EndedOnlyForCause ==
  [][\A c \in Codes :
       (session[c].status # "ENDED" /\ session'[c].status = "ENDED")
         => \/ EndCommandWrite(c)
            \/ session[c].currentRevealIndex >= session[c].maxReveals
            \/ PoolExhausted(c)]_vars

\* ---- C39 ----
\* connection w was told of row r of session c: by location-revealed or
\* inside game-started
ToldOf(w, c, r) ==
  \E d \in log : /\ d.type \in {"location-revealed", "game-started"}
                 /\ w \in d.to /\ d.code = c
                 /\ d.loc = r.locationId /\ d.idx = r.revealIndex

\* C39: a connection that stays open from its open handler onward misses no
\* reveal: once no call is in flight, every row of its session is in the
\* connected snapshot it received or was delivered to it as
\* location-revealed or inside game-started.
C39_MissesNoReveal ==
  \A w \in Conns : \A m \in log :
    (Busy = {} /\ conn[w].state = "open" /\ m.type = "connected" /\ m.to = {w})
      => \A i \in 1..Len(revealed[m.code]) :
           \/ \E j \in 1..Len(m.rows) : m.rows[j] = revealed[m.code][i]
           \/ ToldOf(w, m.code, revealed[m.code][i])

\* C39, in the runs where calls overlap (storage never fails in them): a
\* connection that stays open misses no reveal even when a reveal completes
\* while its open handler is between reading the snapshot and registering
\* the connection.
C39_MissesNoRevealDuringOpen ==
  budget.cap = MaxTasks /\ budget.fail = 0 => C39_MissesNoReveal

====
